---- MODULE Spec2Model ----
(***************************************************************************)
(* Neighborhood density (calcnd.neighbors.Neighbors).                      *)
(*                                                                         *)
(* The constructor validates the feature list and the two thresholds,      *)
(* then scans every pair of rows of the DataFrame, counting the features   *)
(* on which the two rows match, and records the accepted pairs and the     *)
(* per-row neighborhood density.  The Neighbors property returns the       *)
(* stored pairs, mirrored.                                                 *)
(*                                                                         *)
(* Conventions.  Row and loop indices are Python's (0-based); the rows of  *)
(* a DataFrame are a sequence, so row i is data[i + 1].  A Python string   *)
(* that the code builds by joining is a sequence of tokens: a feature      *)
(* name is one token, the separator ", " is the token Sep, and "" is the   *)
(* empty sequence.  An optional value is a sequence of length 0 or 1.      *)
(***************************************************************************)
EXTENDS Integers, Sequences, FiniteSets, TLC

VARIABLES
    pc,                      \* "new", "scan", "done" or "failed"
    args,                    \* the arguments the constructor was called with
    data,                    \* self.data: the rows of the DataFrame
    features,                \* self.features
    allowed_misses,          \* self.allowed_misses
    allowed_matches,         \* self.allowed_matches
    err,                     \* the exception raised by the constructor
    i, j,                    \* the loop indices of _Compute
    nbr_target,              \* the four parallel lists of _Compute
    nbr_neighbor,
    nbr_num_match_features,
    nbr_match_features,
    nd,                      \* the local list nd of _Compute
    ND,                      \* self.nd: the density column
    neighbors,               \* self.neighbors: the rows of the DataFrame
    visited,                 \* history: the index pairs whose features were compared
    nbr_index,               \* history: the index pair behind each stored row
    request,                 \* what the last caller of the accessor asked for
    returned                 \* what the accessor returned last

vars == <<pc, args, data, features, allowed_misses, allowed_matches, err, i, j,
          nbr_target, nbr_neighbor, nbr_num_match_features, nbr_match_features,
          nd, ND, neighbors, visited, nbr_index, request, returned>>

----------------------------------------------------------------------------
(* Bounds and input domains *)

MaxItems == 3

NA == "NA"

Codes == {"A", "B"}

\* The columns of the DataFrame besides Code, and the values a cell can hold.
DataColumns == <<"Code", "F1", "F2">>

ColumnValues == [F1 |-> {NA, "x", "y"}, F2 |-> {NA, "x"}]

Rows == [Code : Codes, F1 : ColumnValues.F1, F2 : ColumnValues.F2]

RECURSIVE SeqsUpTo(_, _)
SeqsUpTo(S, n) ==
    IF n = 0 THEN {<<>>}
    ELSE LET shorter == SeqsUpTo(S, n - 1)
         IN  shorter \cup {Append(s, x) : s \in {t \in shorter : Len(t) = n - 1}, x \in S}

DataFrames == SeqsUpTo(Rows, MaxItems)

FeatureLists ==
    { <<>>, <<"F1">>, <<"F1", "F2">>, <<"F2", "F1">>,
      <<"X">>, <<"F1", "X">>, <<"X", "F2", "Y">> }

AllowedMissesInputs == {-1, 0, 1, 2, 3}

\* allowed_matches=None is <<>>, allowed_matches=v is <<v>>
AllowedMatchesInputs == {<<>>} \cup {<<v>> : v \in {0, 1, 2, 3, 4}}

Unset == <<>>

NoError == [kind |-> "none"]

Sep == ", "

\* The order of Python's str comparison on the Codes.
CodeRank == [A |-> 1, B |-> 2]

----------------------------------------------------------------------------
(* __init__: validation *)

Range(s) == {s[p] : p \in DOMAIN s}

IsColumn(x) == x \in Range(DataColumns)

\* Variant: only the first missing name is reported.
MissingFeatures_FirstOnly(fs) ==
    LET absent(x) == ~IsColumn(x)
        missing == SelectSeq(fs, absent)
    IN  IF missing = <<>> THEN <<>> ELSE <<missing[1]>>

MissingFeatures(fs) ==
    LET absent(x) == ~IsColumn(x)
    IN  SelectSeq(fs, absent)

FeatureError(missing) ==
    [kind |-> "ValueError", msg |-> "Feature(s) {} not in DataFrame data",
     names |-> missing]

\* Variant: the upper limit of allowed_misses is off by one.
AllowedMissesError_OffByOne(am, k) ==
    IF am > k
    THEN [kind |-> "ValueError",
          msg |-> "allowed_misses must be less than or equal to (length(features) - 1)"]
    ELSE IF am < 0
    THEN [kind |-> "ValueError", msg |-> "allowed_misses must be >=0"]
    ELSE NoError

AllowedMissesError(am, k) ==
    IF am > k - 1
    THEN [kind |-> "ValueError",
          msg |-> "allowed_misses must be less than or equal to (length(features) - 1)"]
    ELSE IF am < 0
    THEN [kind |-> "ValueError", msg |-> "allowed_misses must be >=0"]
    ELSE NoError

\* Variant: the default of allowed_matches is one short of len(features).
DefaultAllowedMatches_Short(k) == k - 1

DefaultAllowedMatches(k) == k

AllowedMatchesError(amx, k) ==
    IF amx = <<>> THEN NoError
    ELSE IF amx[1] > k
    THEN [kind |-> "ValueError", msg |-> "allowed_matches cannot exceed length(features)"]
    ELSE IF amx[1] < 1
    THEN [kind |-> "ValueError", msg |-> "allowed_matches must be greater than 1"]
    ELSE NoError

Validate(fs, am, amx) ==
    LET missing == MissingFeatures(fs)
        k == Len(fs)
    IN  IF missing # <<>> THEN FeatureError(missing)
        ELSE IF AllowedMissesError(am, k) # NoError THEN AllowedMissesError(am, k)
        ELSE AllowedMatchesError(amx, k)

----------------------------------------------------------------------------
(* _MatchFeature and the feature loop of _Compute *)

Cell(d, r, col) == d[r + 1][col]

notna(v) == v # NA

\* Variant: the two notna tests are left out.
MatchFeature_NoNaTest(d, a, b, feature) ==
    Cell(d, a, feature) = Cell(d, b, feature)

MatchFeature(d, a, b, feature) ==
    /\ notna(Cell(d, a, feature))
    /\ notna(Cell(d, b, feature))
    /\ Cell(d, a, feature) = Cell(d, b, feature)

\* ", ".join([matched_features, name])
Join(matched_features, name) == matched_features \o <<Sep>> \o <<name>>

\* The loop "for k in range(0, len(self.features))" from position p on,
\* with the running values of matches and matched_features.
RECURSIVE FeatureLoop(_, _, _, _, _, _, _)
FeatureLoop(d, fs, a, b, p, matches, matched_features) ==
    IF p > Len(fs) THEN [matches |-> matches, matched_features |-> matched_features]
    ELSE IF MatchFeature(d, a, b, fs[p])
    THEN FeatureLoop(d, fs, a, b, p + 1, matches + 1,
                     IF matched_features = <<>> THEN <<fs[p]>>
                     ELSE Join(matched_features, fs[p]))
    ELSE FeatureLoop(d, fs, a, b, p + 1, matches, matched_features)

IsNeighbor(matches, k, am, amx) ==
    /\ matches >= k - am
    /\ matches <= amx

\* Variant: the conditional on i != j is removed and j still starts at i.
IsCandidate_Always(a, b) == TRUE

IsCandidate(a, b) == a # b

\* Variant: only the density of the target is incremented.
IncrementND_TargetOnly(density, a, b) == [density EXCEPT ![a] = @ + 1]

IncrementND(density, a, b) ==
    LET first == [density EXCEPT ![a] = @ + 1]
    IN  [first EXCEPT ![b] = @ + 1]

\* Variant: the inner loop starts at 0, as in the line commented out.
NextPosition_FromZero(a, b, n) ==
    IF b + 1 < n THEN <<a, b + 1>> ELSE <<a + 1, 0>>

\* The position of the loops after the body has run for (a, b).
NextPosition(a, b, n) ==
    IF b + 1 < n THEN <<a, b + 1>> ELSE <<a + 1, a + 1>>

\* pd.DataFrame(data_dict): one row per position of the four lists.
DataFrame(target, neighbor, num, matched) ==
    [p \in 1..Len(target) |->
        [target |-> target[p], neighbor |-> neighbor[p],
         num_matched_features |-> num[p], matched_features |-> matched[p]]]

----------------------------------------------------------------------------
(* _MirrorNeighbors and the Neighbors property *)

\* Variant: sort_values(by=['target']) alone.
KeyLess_TargetOnly(r, s) == CodeRank[r.target] < CodeRank[s.target]

\* (target, neighbor) of r sorts strictly before that of s
KeyLess(r, s) ==
    \/ CodeRank[r.target] < CodeRank[s.target]
    \/ /\ r.target = s.target
       /\ CodeRank[r.neighbor] < CodeRank[s.neighbor]

\* Insert r after every row whose key is not greater: the sort is stable.
RECURSIVE InsertSorted(_, _)
InsertSorted(sorted, r) ==
    IF sorted = <<>> THEN <<r>>
    ELSE IF KeyLess(r, Head(sorted)) THEN <<r>> \o sorted
    ELSE <<Head(sorted)>> \o InsertSorted(Tail(sorted), r)

RECURSIVE SortValues(_)
SortValues(rows) ==
    IF rows = <<>> THEN <<>>
    ELSE InsertSorted(SortValues(SubSeq(rows, 1, Len(rows) - 1)), rows[Len(rows)])

\* Variant: the second assignment reads the column the first one overwrote.
Swapped_Overwritten(r) == [r EXCEPT !.target = r.neighbor, !.neighbor = r.neighbor]

Swapped(r) == [r EXCEPT !.target = r.neighbor, !.neighbor = r.target]

MirrorNeighbors(nb) ==
    LET fd == [p \in 1..Len(nb) |-> Swapped(nb[p])]
    IN  SortValues(nb \o fd)

Neighbors(nb, mirror_neighbors) ==
    IF mirror_neighbors THEN MirrorNeighbors(nb) ELSE nb

\* The default of the parameter mirror_neighbors.  Neighbors is a property:
\* reading the attribute calls the getter with self alone, so the parameter
\* takes this default whatever the reader of the attribute wants.
MirrorNeighborsDefault == TRUE

----------------------------------------------------------------------------
(* The state machine *)

Init ==
    /\ pc = "new"
    /\ args = [features |-> <<>>, allowed_misses |-> 0, allowed_matches |-> <<>>]
    /\ data = Unset
    /\ features = Unset
    /\ allowed_misses = 0
    /\ allowed_matches = 0
    /\ err = NoError
    /\ i = 0
    /\ j = 0
    /\ nbr_target = <<>>
    /\ nbr_neighbor = <<>>
    /\ nbr_num_match_features = <<>>
    /\ nbr_match_features = <<>>
    /\ nd = Unset
    /\ ND = Unset
    /\ neighbors = Unset
    /\ visited = <<>>
    /\ nbr_index = <<>>
    /\ request = Unset
    /\ returned = Unset

\* Neighbors(data, features, allowed_misses, allowed_matches) when a check of
\* __init__ raises: no attribute past the check is assigned, _Compute is not
\* called and the caller gets the exception instead of an object.  The
\* checks read the columns of data only, never its rows.
ConstructRaises(fs, am, amx) ==
    /\ pc = "new"
    /\ Validate(fs, am, amx) # NoError
    /\ args' = [features |-> fs, allowed_misses |-> am, allowed_matches |-> amx]
    /\ pc' = "failed"
    /\ err' = Validate(fs, am, amx)
    /\ UNCHANGED <<data, features, allowed_misses, allowed_matches, i, j,
                   nbr_target, nbr_neighbor, nbr_num_match_features,
                   nbr_match_features, nd, ND, neighbors, visited, nbr_index,
                   request, returned>>

\* Neighbors(data, features, allowed_misses, allowed_matches) when every
\* check passes, up to the first lines of _Compute, whose loops then run
\* one body at a time.
Construct(d, fs, am, amx) ==
    /\ pc = "new"
    /\ Validate(fs, am, amx) = NoError
    /\ args' = [features |-> fs, allowed_misses |-> am, allowed_matches |-> amx]
    /\ pc' = "scan"
    /\ data' = d
    /\ features' = fs
    /\ allowed_misses' = am
    /\ allowed_matches' = IF amx = <<>> THEN DefaultAllowedMatches(Len(fs)) ELSE amx[1]
    /\ nd' = [x \in 0..(Len(d) - 1) |-> 0]
    /\ UNCHANGED <<err, i, j, nbr_target, nbr_neighbor, nbr_num_match_features,
                   nbr_match_features, ND, neighbors, visited, nbr_index,
                   request, returned>>

\* One body of the inner loop with i = j: the conditional skips it.
SkipSelf ==
    /\ pc = "scan"
    /\ i < Len(data)
    /\ ~IsCandidate(i, j)
    /\ i' = NextPosition(i, j, Len(data))[1]
    /\ j' = NextPosition(i, j, Len(data))[2]
    /\ UNCHANGED <<pc, args, data, features, allowed_misses, allowed_matches, err,
                   nbr_target, nbr_neighbor, nbr_num_match_features,
                   nbr_match_features, nd, ND, neighbors, visited, nbr_index,
                   request, returned>>

\* One body of the inner loop with i # j: the feature loop, the acceptance
\* test, the four appends and the two increments.
ComparePair ==
    /\ pc = "scan"
    /\ i < Len(data)
    /\ IsCandidate(i, j)
    /\ LET res == FeatureLoop(data, features, i, j, 1, 0, <<>>)
       IN  IF IsNeighbor(res.matches, Len(features), allowed_misses, allowed_matches)
           THEN /\ nbr_target' = Append(nbr_target, Cell(data, i, "Code"))
                /\ nbr_neighbor' = Append(nbr_neighbor, Cell(data, j, "Code"))
                /\ nbr_num_match_features' = Append(nbr_num_match_features, res.matches)
                /\ nbr_match_features' = Append(nbr_match_features, res.matched_features)
                /\ nd' = IncrementND(nd, i, j)
                /\ nbr_index' = Append(nbr_index, <<i, j>>)
           ELSE UNCHANGED <<nbr_target, nbr_neighbor, nbr_num_match_features,
                            nbr_match_features, nd, nbr_index>>
    /\ visited' = Append(visited, <<i, j>>)
    /\ i' = NextPosition(i, j, Len(data))[1]
    /\ j' = NextPosition(i, j, Len(data))[2]
    /\ UNCHANGED <<pc, args, data, features, allowed_misses, allowed_matches, err,
                   ND, neighbors, request, returned>>

\* The outer loop is exhausted: build the two results and return.
Finish ==
    /\ pc = "scan"
    /\ i >= Len(data)
    /\ pc' = "done"
    /\ neighbors' = DataFrame(nbr_target, nbr_neighbor, nbr_num_match_features,
                              nbr_match_features)
    /\ ND' = nd
    /\ UNCHANGED <<args, data, features, allowed_misses, allowed_matches, err, i, j,
                   nbr_target, nbr_neighbor, nbr_num_match_features,
                   nbr_match_features, nd, visited, nbr_index, request, returned>>

\* A caller reads the Neighbors property, wanting the list mirrored or not.
GetNeighbors(mirror) ==
    /\ pc = "done"
    /\ request' = <<mirror>>
    /\ returned' = Neighbors(neighbors, MirrorNeighborsDefault)
    /\ UNCHANGED <<pc, args, data, features, allowed_misses, allowed_matches, err, i, j,
                   nbr_target, nbr_neighbor, nbr_num_match_features,
                   nbr_match_features, nd, ND, neighbors, visited, nbr_index>>

Next ==
    \/ /\ pc = "new"
       /\ \E fs \in FeatureLists, am \in AllowedMissesInputs,
             amx \in AllowedMatchesInputs :
               ConstructRaises(fs, am, amx)
    \/ /\ pc = "new"
       /\ \E fs \in FeatureLists, am \in AllowedMissesInputs,
             amx \in AllowedMatchesInputs :
               /\ Validate(fs, am, amx) = NoError
               /\ \E d \in DataFrames : Construct(d, fs, am, amx)
    \/ SkipSelf
    \/ ComparePair
    \/ Finish
    \/ /\ pc = "done"
       /\ \E mirror \in BOOLEAN : GetNeighbors(mirror)

Spec == Init /\ [][Next]_vars

----------------------------------------------------------------------------
(* Vocabulary of the properties, stated on the DataFrame itself *)

\* The two error kinds of the specification, as the exception class the
\* code raises for each.
UnknownFeatureError == "ValueError"

InvalidThresholdError == "ValueError"

ThresholdMessages ==
    { "allowed_misses must be less than or equal to (length(features) - 1)",
      "allowed_misses must be >=0",
      "allowed_matches cannot exceed length(features)",
      "allowed_matches must be greater than 1" }

Present(r, f) == data[r + 1][f] # NA

\* Items a and b both hold a value for feature f, and the same one.
Agree(a, b, f) == Present(a, f) /\ Present(b, f) /\ data[a + 1][f] = data[b + 1][f]

MatchCount(a, b) == Cardinality({p \in DOMAIN features : Agree(a, b, features[p])})

AcceptanceRule(a, b) ==
    LET matches == MatchCount(a, b)
    IN  /\ Len(features) - allowed_misses <= matches
        /\ matches <= allowed_matches

Emitted(a, b) == \E q \in DOMAIN nbr_index : nbr_index[q] = <<a, b>>

ItemIndices == 0..(Len(data) - 1)

IndexPairs == {<<a, b>> \in ItemIndices \X ItemIndices : a < b}

RECURSIVE SumDensity(_, _)
SumDensity(density, n) ==
    IF n = 0 THEN 0 ELSE density[n - 1] + SumDensity(density, n - 1)

PairBefore(p, q) == p[1] < q[1] \/ (p[1] = q[1] /\ p[2] < q[2])

\* PairBefore is transitive: comparing neighbours compares all.
StrictlyAscending(pairs) ==
    \A p \in 1..(Len(pairs) - 1) : PairBefore(pairs[p], pairs[p + 1])

IsIndexPair(pr) == 0 <= pr[1] /\ pr[1] < pr[2] /\ pr[2] < Len(data)

\* The names a joined string lists: it is name, Sep, name, ..., name.
WellJoined(s) ==
    /\ Len(s) % 2 = 1
    /\ \A p \in DOMAIN s : (p % 2 = 0) <=> (s[p] = Sep)

NamesOf(s) == [p \in 1..((Len(s) + 1) \div 2) |-> s[2 * p - 1]]

MatchingFeatures(a, b) ==
    LET agree(f) == Agree(a, b, f)
    IN  SelectSeq(features, agree)

KeyLeq(r, s) ==
    \/ CodeRank[r.target] < CodeRank[s.target]
    \/ /\ r.target = s.target
       /\ CodeRank[r.neighbor] <= CodeRank[s.neighbor]

Deduplicate(rows) ==
    LET keep(r) == CodeRank[r.target] <= CodeRank[r.neighbor]
    IN  SelectSeq(rows, keep)

UnorderedPairs(rows) == {{rows[p].target, rows[p].neighbor} : p \in DOMAIN rows}

ArgMissing == {args.features[p] : p \in {q \in DOMAIN args.features :
                                            ~(args.features[q] \in {"Code", "F1", "F2"})}}

ArgBadMisses == ~(args.allowed_misses \in 0..(Len(args.features) - 1))

ArgBadMatches ==
    /\ args.allowed_matches # <<>>
    /\ ~(args.allowed_matches[1] \in 1..Len(args.features))

NothingScanned ==
    /\ visited = <<>>
    /\ nbr_target = <<>>
    /\ nd = Unset
    /\ ND = Unset
    /\ neighbors = Unset

Scanning == pc \in {"scan", "done"}

----------------------------------------------------------------------------
(* Properties *)

\* C1: a pair of distinct items (a, b), a < b, whose features were compared
\* is stored as a row, and both its densities counted, if and only if its
\* number of matching features (both values present and equal) lies between
\* k - allowed_misses and allowed_matches; at the end this covers every pair.
C1_AcceptanceRule ==
    Scanning =>
        /\ \A p \in DOMAIN visited :
              Emitted(visited[p][1], visited[p][2])
                  <=> AcceptanceRule(visited[p][1], visited[p][2])
        /\ pc = "done" =>
              \A pr \in IndexPairs : Emitted(pr[1], pr[2]) <=> AcceptanceRule(pr[1], pr[2])
        /\ Len(nbr_target) = Len(nbr_index)
        /\ \A x \in ItemIndices :
              nd[x] = Cardinality({q \in DOMAIN nbr_index :
                                      x = nbr_index[q][1] \/ x = nbr_index[q][2]})

\* C1 witness: a finished scan over two features that stored a pair for
\* which one feature is missing on both items (counted, it would have put
\* the pair above allowed_matches) and rejected another pair.
C1_Witness ==
    /\ pc = "done"
    /\ Len(features) = 2
    /\ allowed_matches = 1
    /\ \E pr \in IndexPairs :
          /\ Emitted(pr[1], pr[2])
          /\ \E p \in DOMAIN features :
                ~Present(pr[1], features[p]) /\ ~Present(pr[2], features[p])
    /\ \E pr \in IndexPairs : ~Emitted(pr[1], pr[2])

\* C2: a caller who asks for the list without mirroring gets the stored
\* rows, one per accepted pair; one who asks for mirroring gets the mirror.
C2_AsRequested ==
    /\ request = <<FALSE>> => returned = neighbors
    /\ request = <<TRUE>> => returned = MirrorNeighbors(neighbors)

\* C3: during the scan and after it the entries of the density table sum to
\* twice the number of stored pairs.
C3_DensitySum ==
    /\ pc = "scan" => SumDensity(nd, Len(data)) = 2 * Len(nbr_target)
    /\ pc = "done" => /\ SumDensity(ND, Len(data)) = 2 * Len(neighbors)
                      /\ SumDensity(ND, Len(data)) % 2 = 0

\* C3 witness: the scan is under way, with pairs stored and pairs to come.
C3_Witness ==
    /\ pc = "scan"
    /\ Len(nbr_target) >= 2
    /\ i < Len(data)

\* C4: after construction the density of item x is the number of other
\* items y for which the pair satisfies the acceptance rule, hence within
\* 0..n-1.
C4_DensityCount ==
    pc = "done" =>
        \A x \in ItemIndices :
            /\ ND[x] = Cardinality({y \in ItemIndices \ {x} :
                          AcceptanceRule(IF x < y THEN x ELSE y, IF x < y THEN y ELSE x)})
            /\ 0 <= ND[x]
            /\ ND[x] <= Len(data) - 1

\* C4 witness: three items, two of them with the same Code, one of them a
\* neighbor of both others.
C4_Witness ==
    /\ pc = "done"
    /\ Len(data) = 3
    /\ \E x \in ItemIndices : \E y \in ItemIndices : x # y /\ data[x + 1].Code = data[y + 1].Code
    /\ \E x \in ItemIndices : ND[x] = 2
    /\ \E x \in ItemIndices : ND[x] = 1

\* C5: the mirrored list has twice the rows of the stored list, holds every
\* stored row and its swap with the other fields unchanged, and is sorted
\* ascending by (target, neighbor).
C5_Mirror ==
    request # Unset =>
        /\ Len(returned) = 2 * Len(neighbors)
        /\ \A p \in DOMAIN neighbors :
              /\ \E q \in DOMAIN returned : returned[q] = neighbors[p]
              /\ \E q \in DOMAIN returned :
                    /\ returned[q].target = neighbors[p].neighbor
                    /\ returned[q].neighbor = neighbors[p].target
                    /\ returned[q].num_matched_features = neighbors[p].num_matched_features
                    /\ returned[q].matched_features = neighbors[p].matched_features
        /\ \A q \in DOMAIN returned :
              q < Len(returned) => KeyLeq(returned[q], returned[q + 1])

\* C5 witness: a mirrored list of two stored rows, one of which has a
\* target that sorts after its neighbor.
C5_Witness ==
    /\ request # Unset
    /\ Len(neighbors) = 2
    /\ Len(returned) = 4
    /\ \E p \in DOMAIN neighbors :
          CodeRank[neighbors[p].target] > CodeRank[neighbors[p].neighbor]
    /\ neighbors[1].target # neighbors[2].target

\* C6: thresholds outside their ranges make the constructor fail with the
\* threshold error before anything is scanned; an omitted allowed_matches is
\* accepted and becomes k.
C6_InvalidThreshold ==
    pc # "new" =>
        /\ (ArgBadMisses \/ ArgBadMatches) =>
              /\ pc = "failed"
              /\ err.kind = InvalidThresholdError
              /\ ArgMissing = {} => err.msg \in ThresholdMessages
              /\ NothingScanned
        /\ (args.allowed_matches = <<>> /\ ~ArgBadMisses /\ ArgMissing = {}) =>
              /\ pc # "failed"
              /\ allowed_matches = Len(args.features)

\* C6 witness: the constructor failed on allowed_misses = k with every
\* feature a column and allowed_matches in range.
C6_Witness ==
    /\ pc = "failed"
    /\ args.features = <<"F1", "F2">>
    /\ args.allowed_misses = 2
    /\ args.allowed_matches = <<2>>

\* C7 as stated: a feature that is not a column makes the constructor fail,
\* before anything is scanned, with an error that lists every missing name
\* and whose kind is not the kind of the threshold error.
C7_DistinctKind ==
    (pc # "new" /\ ArgMissing # {}) =>
        /\ pc = "failed"
        /\ err.kind = UnknownFeatureError
        /\ Range(err.names) = ArgMissing
        /\ NothingScanned
        /\ err.kind # InvalidThresholdError

\* C7 amended: a feature that is not a column makes the constructor fail,
\* before anything is scanned, with an error that lists every missing name;
\* its kind is the kind of the threshold error too (ValueError) and only
\* its message tells the two apart.
C7_UnknownFeature ==
    (pc # "new" /\ ArgMissing # {}) =>
        /\ pc = "failed"
        /\ err.kind = UnknownFeatureError
        /\ err.kind = InvalidThresholdError
        /\ ~(err.msg \in ThresholdMessages)
        /\ Range(err.names) = ArgMissing
        /\ NothingScanned

\* C7 witness: the constructor failed on two missing names.
C7_Witness ==
    /\ pc = "failed"
    /\ ArgMissing = {"X", "Y"}
    /\ Len(err.names) = 2

\* C8: with allowed_misses = 0 and allowed_matches omitted a compared pair
\* is stored if and only if the two items agree on every feature, none of
\* them missing on either item.
C8_Defaults ==
    (Scanning /\ args.allowed_misses = 0 /\ args.allowed_matches = <<>>) =>
        \A p \in DOMAIN visited :
            Emitted(visited[p][1], visited[p][2])
                <=> \A q \in DOMAIN features :
                        /\ Present(visited[p][1], features[q])
                        /\ Present(visited[p][2], features[q])
                        /\ data[visited[p][1] + 1][features[q]]
                               = data[visited[p][2] + 1][features[q]]

\* C8 witness: under the defaults with two features, one pair was stored
\* and a pair agreeing on one feature with the other missing on one side
\* was not.
C8_Witness ==
    /\ pc = "done"
    /\ args.allowed_misses = 0
    /\ args.allowed_matches = <<>>
    /\ Len(features) = 2
    /\ \E pr \in IndexPairs : Emitted(pr[1], pr[2])
    /\ \E pr \in IndexPairs :
          /\ ~Emitted(pr[1], pr[2])
          /\ MatchCount(pr[1], pr[2]) = 1
          /\ \E q \in DOMAIN features :
                Present(pr[1], features[q]) /\ ~Present(pr[2], features[q])

\* C9: keeping the rows with target <= neighbor of the mirrored list gives
\* back the unordered {target, neighbor} pairs of the stored list.
C9_MirrorThenDeduplicate ==
    request # Unset =>
        UnorderedPairs(Deduplicate(returned)) = UnorderedPairs(neighbors)

\* C9 witness: a mirrored list whose stored rows include one with a target
\* that sorts after its neighbor and one between two items of the same Code.
C9_Witness ==
    /\ request # Unset
    /\ returned # <<>>
    /\ \E p \in DOMAIN neighbors :
          CodeRank[neighbors[p].target] > CodeRank[neighbors[p].neighbor]
    /\ \E p \in DOMAIN neighbors : neighbors[p].target = neighbors[p].neighbor

\* C10: the scan compares each pair a < b once, in order of a then b, and
\* never an item with itself; the stored rows follow that order, carry the
\* Codes of a and b as target and neighbor, list the matching features in
\* the order of the feature list, and count them.
C10_ScanOrder ==
    Scanning =>
        /\ \A p \in DOMAIN visited : IsIndexPair(visited[p])
        /\ StrictlyAscending(visited)
        /\ pc = "done" => Range(visited) = IndexPairs
        /\ StrictlyAscending(nbr_index)
        /\ \A q \in DOMAIN nbr_index :
              /\ nbr_index[q] \in Range(visited)
              /\ nbr_target[q] = data[nbr_index[q][1] + 1].Code
              /\ nbr_neighbor[q] = data[nbr_index[q][2] + 1].Code
              /\ WellJoined(nbr_match_features[q])
              /\ NamesOf(nbr_match_features[q])
                     = MatchingFeatures(nbr_index[q][1], nbr_index[q][2])
              /\ nbr_num_match_features[q] = Len(NamesOf(nbr_match_features[q]))
        /\ pc = "done" =>
              neighbors = [q \in DOMAIN nbr_index |->
                              [target |-> nbr_target[q], neighbor |-> nbr_neighbor[q],
                               num_matched_features |-> nbr_num_match_features[q],
                               matched_features |-> nbr_match_features[q]]]

\* C10 witness: three items all scanned, every pair stored, the Codes not
\* in ascending order, two features matched on some pair.
C10_Witness ==
    /\ pc = "done"
    /\ Len(data) = 3
    /\ Len(neighbors) = 3
    /\ CodeRank[data[1].Code] > CodeRank[data[2].Code]
    /\ \E q \in DOMAIN neighbors : neighbors[q].num_matched_features = 2
    /\ features = <<"F2", "F1">>

====
